---- MODULE Spec2Model ----
(***************************************************************************)
(* Model of inventory_system.py: a process-wide mapping STOCK_DATA from    *)
(* item names to quantities, mutated by add_item / remove_item, read by    *)
(* get_qty / check_low_items / print_data, and saved to / loaded from a    *)
(* JSON file by save_data / load_data.  main() is the demonstration run.   *)
(***************************************************************************)
EXTENDS Integers, Sequences, FiniteSets, TLC

VARIABLES
    STOCK_DATA,   \* the dict of line 17, as the sequence of its entries in insertion order
    files,        \* the file system: path -> [exists, text]
    logs,         \* the caller's log list after the last call (line 36)
    call,         \* the last call made: function name and arguments
    before,       \* STOCK_DATA as it was when the last call was entered
    level,        \* level of the log record the last call emitted
    raised,       \* the exception the last call let escape to its caller
    ret,          \* the value the last call returned
    printed,      \* the lines the last call printed on standard output
    pc            \* position in main(), or "imported" when main() does not run

vars == <<STOCK_DATA, files, logs, call, before, level, raised, ret, printed, pc>>

-----------------------------------------------------------------------------
(* Bounds of the model and the inputs drawn by the callers.                *)

\* largest quantity an entry may reach under Spec (Python integers are unbounded)
MaxStock == 2

\* most negative quantity an entry may reach under Spec is -MaxDebt
MaxDebt == 1

Names == {"apple", "banana"}

\* most tokens of the text that reach the file before a write fails
MaxPartial == 1

QtyValues == {-1, 1, 2}

\* Python values passed as arguments: strings, integers, None
PyStr(s) == [type |-> "str", i |-> 0, s |-> s]

PyInt(n) == [type |-> "int", i |-> n, s |-> ""]

PyNone == [type |-> "NoneType", i |-> 0, s |-> ""]

\* arguments <<item, qty>> of the right types
ValidArgs == {<<PyStr(n), PyInt(q)>> : n \in Names, q \in QtyValues}

\* arguments of the wrong types: the 123 and "ten" of line 127, one or both
InvalidArgs ==
    {<<PyInt(123), PyStr("ten")>>, <<PyInt(123), PyInt(1)>>, <<PyStr("apple"), PyStr("ten")>>}

Args == ValidArgs \cup InvalidArgs

-----------------------------------------------------------------------------
(* Python dict, as the sequence of its entries [item, qty] in insertion    *)
(* order, each key once.                                                   *)

Keys(d) == {d[i].item : i \in 1..Len(d)}

\* key in d
Has(d, k) == \E i \in 1..Len(d) : d[i].item = k

\* d.get(k, default)
Get(d, k, default) ==
    IF Has(d, k) THEN d[CHOOSE i \in 1..Len(d) : d[i].item = k].qty ELSE default

\* d[k] = v : an existing key keeps its place, a new key goes last
DictSet(d, k, v) ==
    IF Has(d, k)
    THEN [i \in 1..Len(d) |-> IF d[i].item = k THEN [item |-> k, qty |-> v] ELSE d[i]]
    ELSE Append(d, [item |-> k, qty |-> v])

\* del d[k]
DictDel(d, k) == SelectSeq(d, LAMBDA e : e.item # k)

-----------------------------------------------------------------------------
(* json.dump / json.load of the mapping.  A text is a sequence of tokens:  *)
(* punctuation, string literals and the characters of a number.  The       *)
(* white space of indent=4 is part of the punctuation tokens.              *)

P(c) == [t |-> "punct", s |-> c]

S(name) == [t |-> "string", s |-> name]

D(c) == [t |-> "digit", s |-> c]

Digits == <<"0", "1", "2", "3", "4", "5", "6", "7", "8", "9">>

DigitVal(c) == CHOOSE k \in 0..9 : Digits[k + 1] = c

RECURSIVE NatStr(_)
\* repr of a natural number, most significant digit first
NatStr(n) ==
    IF n < 10 THEN <<D(Digits[n + 1])>>
    ELSE Append(NatStr(n \div 10), D(Digits[(n % 10) + 1]))

\* int.__repr__ without the sign
IntStr_NoSign(n) == NatStr(IF n < 0 THEN -n ELSE n)

\* int.__repr__, which json uses for int values
IntStr(n) == IF n < 0 THEN <<P("-")>> \o NatStr(-n) ELSE NatStr(n)

RECURSIVE DumpMembers(_, _)
\* "key": value of entries i.. of d, separated by ","
DumpMembers(d, i) ==
    IF i > Len(d) THEN <<>>
    ELSE (IF i > 1 THEN <<P(",")>> ELSE <<>>)
         \o <<S(d[i].item), P(":")>> \o IntStr(d[i].qty)
         \o DumpMembers(d, i + 1)

\* json.dump(STOCK_DATA, file, indent=4), line 98
Dump(d) == <<P("{")>> \o DumpMembers(d, 1) \o <<P("}")>>

RECURSIVE ScanDigits(_, _, _)
\* the digits of text from pos on: [val, pos] with pos the first non-digit
ScanDigits(text, pos, acc) ==
    IF pos <= Len(text) /\ text[pos].t = "digit"
    THEN ScanDigits(text, pos + 1, acc * 10 + DigitVal(text[pos].s))
    ELSE [val |-> acc, pos |-> pos]

\* a JSON integer at pos: [ok, val, pos]
ParseNumber(text, pos) ==
    LET neg == pos <= Len(text) /\ text[pos] = P("-")
        start == IF neg THEN pos + 1 ELSE pos
        r == ScanDigits(text, start, 0)
    IN  IF r.pos = start THEN [ok |-> FALSE, val |-> 0, pos |-> pos]
        ELSE [ok |-> TRUE, val |-> IF neg THEN -r.val ELSE r.val, pos |-> r.pos]

RECURSIVE ParseMembers(_, _, _)
\* the members of a JSON object from pos on, added to the dict acc: [ok, val]
ParseMembers(text, pos, acc) ==
    IF ~(pos + 1 <= Len(text) /\ text[pos].t = "string" /\ text[pos + 1] = P(":"))
    THEN [ok |-> FALSE, val |-> <<>>]
    ELSE LET n == ParseNumber(text, pos + 2)
             d == DictSet(acc, text[pos].s, n.val)
         IN  IF ~n.ok \/ n.pos > Len(text) THEN [ok |-> FALSE, val |-> <<>>]
             ELSE IF text[n.pos] = P(",") THEN ParseMembers(text, n.pos + 1, d)
             ELSE IF text[n.pos] = P("}") /\ n.pos = Len(text) THEN [ok |-> TRUE, val |-> d]
             ELSE [ok |-> FALSE, val |-> <<>>]

\* json.load(file), line 83: [ok, val]; ok is FALSE where json raises JSONDecodeError
Load(text) ==
    IF Len(text) < 2 \/ text[1] # P("{") THEN [ok |-> FALSE, val |-> <<>>]
    ELSE IF text[2] = P("}")
         THEN [ok |-> Len(text) = 2, val |-> <<>>]
         ELSE ParseMembers(text, 2, <<>>)

-----------------------------------------------------------------------------
(* The file system and the values the calls exchange with their caller.    *)

\* INVENTORY_FILE of line 14, the default of file_path
INVENTORY_FILE == "inventory.json"

\* a path whose directory does not exist: open() fails on it for "r" and for "w"
NoDirFile == "missing_dir/inventory.json"

Paths == {INVENTORY_FILE, NoDirFile}

DirExists(path) == path # NoDirFile

NoFile == [exists |-> FALSE, text |-> <<>>]

FileOf(text) == [exists |-> TRUE, text |-> text]

\* what open(file_path, "w") and the writes after it can do (lines 97-98, 100)
SaveModes == {"ok", "open_error", "write_error"}

\* what open(file_path, "r") and the read after it can do (lines 82-83)
LoadModes == {"ok", "read_error"}

\* the logs argument of add_item: None (the default) or the caller's list
NoLogs == [given |-> FALSE, list |-> <<>>]

GivenLogs(l) == [given |-> TRUE, list |-> l]

\* the record line 36 appends: f"{datetime.now()}: Added {qty} of {item}"
LogEntry(qty, item) == [text |-> "Added", qty |-> qty, item |-> item]

LogArgs == {NoLogs, GivenLogs(<<LogEntry(1, "apple")>>)}

RetNone == [type |-> "NoneType", i |-> 0, l |-> <<>>]

RetInt(n) == [type |-> "int", i |-> n, l |-> <<>>]

RetList(l) == [type |-> "list", i |-> 0, l |-> l]

\* a line on standard output
Line(text, item, qty, list) == [text |-> text, item |-> item, qty |-> qty, list |-> list]

Call(op, item, qty, lg, path, mode, threshold) ==
    [op |-> op, item |-> item, qty |-> qty, logs |-> lg, path |-> path,
     mode |-> mode, threshold |-> threshold]

NoCall == Call("none", PyNone, PyNone, NoLogs, "", "", 0)

\* what every call leaves behind for its caller besides the mapping and the files
Returns(c, lv, exc, value) ==
    /\ call' = c
    /\ before' = STOCK_DATA
    /\ level' = lv
    /\ raised' = exc
    /\ ret' = value

-----------------------------------------------------------------------------
(* The functions of inventory_system.py.                                   *)

\* the type check without its second half
ValidTypes_ItemOnly(item, qty) == item.type = "str"

\* the type check of lines 31 and 47
ValidTypes(item, qty) == item.type = "str" /\ qty.type = "int"

\* line 35 overwriting the stored quantity: STOCK_DATA[item] = qty
StockAfterAdd_Overwrite(stock, name, n) == DictSet(stock, name, n)

\* line 35: STOCK_DATA[item] = STOCK_DATA.get(item, 0) + qty
StockAfterAdd(stock, name, n) == DictSet(stock, name, Get(stock, name, 0) + n)

\* lines 54-56 with the test of line 55 as < 0
StockAfterRemove_KeepZero(stock, name, n) ==
    LET left == Get(stock, name, 0) - n
    IN  IF left < 0 THEN DictDel(stock, name) ELSE DictSet(stock, name, left)

\* lines 54-56: STOCK_DATA[item] -= qty; if STOCK_DATA[item] <= 0: del STOCK_DATA[item]
StockAfterRemove(stock, name, n) ==
    LET left == Get(stock, name, 0) - n
    IN  IF left <= 0 THEN DictDel(stock, name) ELSE DictSet(stock, name, left)

\* line 36: logs.append(...); with logs=None the list is local and is dropped
LogsAfterAdd(lg, name, n) ==
    IF lg.given THEN Append(lg.list, LogEntry(n, name)) ELSE <<>>

add_item(item, qty, lg) ==
    LET c == Call("add_item", item, qty, lg, "", "", 0)
    IN  IF ~ValidTypes(item, qty)
        THEN /\ Returns(c, "ERROR", "none", RetNone)
             /\ logs' = lg.list
             /\ printed' = <<>>
             /\ UNCHANGED <<STOCK_DATA, files>>
        ELSE /\ STOCK_DATA' = StockAfterAdd(STOCK_DATA, item.s, qty.i)
             /\ logs' = LogsAfterAdd(lg, item.s, qty.i)
             /\ Returns(c, "INFO", "none", RetNone)
             /\ printed' = <<>>
             /\ UNCHANGED files

\* line 52 never taken
NotFound_Never(stock, name) == FALSE

\* line 52: item not in STOCK_DATA
NotFound(stock, name) == ~Has(stock, name)

remove_item(item, qty) ==
    LET c == Call("remove_item", item, qty, NoLogs, "", "", 0)
    IN  /\ logs' = <<>>
        /\ printed' = <<>>
        /\ UNCHANGED files
        /\ IF ~ValidTypes(item, qty)
           THEN /\ Returns(c, "ERROR", "none", RetNone)
                /\ UNCHANGED STOCK_DATA
           ELSE IF NotFound(STOCK_DATA, item.s)
           THEN \* KeyError, caught on line 58
                /\ Returns(c, "WARNING", "none", RetNone)
                /\ UNCHANGED STOCK_DATA
           ELSE /\ STOCK_DATA' = StockAfterRemove(STOCK_DATA, item.s, qty.i)
                /\ Returns(c, "INFO", "none", RetNone)

\* line 71: STOCK_DATA.get(item, 0)
QtyOf(stock, name) == Get(stock, name, 0)

\* get_qty as STOCK_DATA.setdefault(item, 0), which stores the default
get_qty_SetDefault(name) ==
    /\ Returns(Call("get_qty", PyStr(name), PyNone, NoLogs, "", "", 0),
               "NONE", "none", RetInt(QtyOf(STOCK_DATA, name)))
    /\ logs' = <<>>
    /\ STOCK_DATA' = DictSet(STOCK_DATA, name, QtyOf(STOCK_DATA, name))
    /\ UNCHANGED files

get_qty(name) ==
    /\ Returns(Call("get_qty", PyStr(name), PyNone, NoLogs, "", "", 0),
               "NONE", "none", RetInt(QtyOf(STOCK_DATA, name)))
    /\ logs' = <<>>
    /\ UNCHANGED <<STOCK_DATA, files>>

\* line 87 left out: the mapping stays
StockWhenMissing_Keep(stock) == stock

\* line 87: the mapping after FileNotFoundError
StockWhenMissing(stock) == <<>>

load_data(path, mode) ==
    LET c == Call("load_data", PyNone, PyNone, NoLogs, path, mode, 0)
        f == files[path]
    IN  /\ logs' = <<>>
        /\ printed' = <<>>
        /\ UNCHANGED files
        /\ IF ~f.exists
           THEN \* open() raises FileNotFoundError, caught on line 85
                /\ mode = "ok"
                /\ STOCK_DATA' = StockWhenMissing(STOCK_DATA)
                /\ Returns(c, "WARNING", "none", RetNone)
           ELSE IF mode = "read_error"
           THEN \* another OSError is not caught
                /\ Returns(c, "NONE", "OSError", RetNone)
                /\ UNCHANGED STOCK_DATA
           ELSE IF Load(f.text).ok
           THEN /\ STOCK_DATA' = Load(f.text).val
                /\ Returns(c, "INFO", "none", RetNone)
           ELSE \* JSONDecodeError is not caught, line 83 assigns nothing
                /\ Returns(c, "NONE", "JSONDecodeError", RetNone)
                /\ UNCHANGED STOCK_DATA

\* the file after a write that failed part way: open(..., "w") has truncated it
\* and a proper prefix of the text has reached it
Partial(text) ==
    {FileOf(SubSeq(text, 1, k)) : k \in 0..(Len(text) - 1)} \cap
    {FileOf(SubSeq(text, 1, k)) : k \in 0..MaxPartial}

save_data(path, mode) ==
    LET c == Call("save_data", PyNone, PyNone, NoLogs, path, mode, 0)
    IN  /\ logs' = <<>>
        /\ printed' = <<>>
        /\ UNCHANGED STOCK_DATA
        /\ \/ /\ mode = "open_error"
              /\ Returns(c, "ERROR", "none", RetNone)
              /\ UNCHANGED files
           \/ /\ mode = "write_error"
              /\ DirExists(path)
              /\ \E f \in Partial(Dump(STOCK_DATA)) : files' = [files EXCEPT ![path] = f]
              /\ Returns(c, "ERROR", "none", RetNone)
           \/ /\ mode = "ok"
              /\ DirExists(path)
              /\ files' = [files EXCEPT ![path] = FileOf(Dump(STOCK_DATA))]
              /\ Returns(c, "INFO", "none", RetNone)

RECURSIVE ReportLines(_, _)
\* lines 107-108: one line per entry, in the dict's order
ReportLines(stock, i) ==
    IF i > Len(stock) THEN <<>>
    ELSE <<Line("->", stock[i].item, stock[i].qty, <<>>)>> \o ReportLines(stock, i + 1)

print_data ==
    /\ printed' = <<Line("Items Report:", "", 0, <<>>)>> \o ReportLines(STOCK_DATA, 1)
    /\ Returns(Call("print_data", PyNone, PyNone, NoLogs, "", "", 0),
               "NONE", "none", RetNone)
    /\ logs' = <<>>
    /\ UNCHANGED <<STOCK_DATA, files>>

RECURSIVE LowItems_AtMost(_, _, _)
\* line 120 with qty <= threshold
LowItems_AtMost(stock, threshold, i) ==
    IF i > Len(stock) THEN <<>>
    ELSE (IF stock[i].qty <= threshold THEN <<stock[i].item>> ELSE <<>>)
         \o LowItems_AtMost(stock, threshold, i + 1)

RECURSIVE LowItems(_, _, _)
\* line 120: [item for item, qty in STOCK_DATA.items() if qty < threshold]
LowItems(stock, threshold, i) ==
    IF i > Len(stock) THEN <<>>
    ELSE (IF stock[i].qty < threshold THEN <<stock[i].item>> ELSE <<>>)
         \o LowItems(stock, threshold, i + 1)

\* threshold=5, line 111
DefaultThreshold == 5

Thresholds == {0, 2, DefaultThreshold}

check_low_items(threshold) ==
    /\ Returns(Call("check_low_items", PyNone, PyNone, NoLogs, "", "", threshold),
               "NONE", "none", RetList(LowItems(STOCK_DATA, threshold, 1)))
    /\ logs' = <<>>
    /\ UNCHANGED <<STOCK_DATA, files>>

-----------------------------------------------------------------------------
(* Spec: the module imported by a caller that calls its functions in any   *)
(* order.  Line 138 keeps main() from running.                             *)

Init ==
    /\ STOCK_DATA = <<>>
    /\ files = [p \in Paths |-> NoFile]
    /\ logs = <<>>
    /\ call = NoCall
    /\ before = <<>>
    /\ level = "NONE"
    /\ raised = "none"
    /\ ret = RetNone
    /\ printed = <<>>
    /\ pc = "imported"

\* the quantities the bounds of the model admit in an entry
InBounds(n) == -MaxDebt <= n /\ n <= MaxStock

\* the caller keeps the quantity a call stores within the bounds of the model
CallInBounds(item, qty, sign) ==
    ValidTypes(item, qty) => InBounds(Get(STOCK_DATA, item.s, 0) + sign * qty.i)

\* a call made by the importing program, which is nowhere in main()
Imported == pc = "imported" /\ UNCHANGED pc

AddItem ==
    /\ Imported
    /\ \E a \in Args, lg \in LogArgs :
          CallInBounds(a[1], a[2], 1) /\ add_item(a[1], a[2], lg)

RemoveItem ==
    /\ Imported
    /\ \E a \in Args : CallInBounds(a[1], a[2], -1) /\ remove_item(a[1], a[2])

GetQty == Imported /\ \E name \in Names : get_qty(name) /\ printed' = <<>>

LoadData == Imported /\ \E path \in Paths, mode \in LoadModes : load_data(path, mode)

SaveData == Imported /\ \E path \in Paths, mode \in SaveModes : save_data(path, mode)

PrintData == Imported /\ print_data

CheckLowItems ==
    Imported /\ \E threshold \in Thresholds : check_low_items(threshold) /\ printed' = <<>>

Next ==
    \/ AddItem
    \/ RemoveItem
    \/ GetQty
    \/ LoadData
    \/ SaveData
    \/ PrintData
    \/ CheckLowItems

Spec == Init /\ [][Next]_vars

-----------------------------------------------------------------------------
(* MainSpec: the module run as a script (lines 138-139).  main() runs from *)
(* the empty mapping of line 17; inventory.json is absent, or is what an   *)
(* earlier run left there.                                                 *)

\* the mapping main() saves on line 133
MainStock == <<[item |-> "apple", qty |-> 7], [item |-> "banana", qty |-> -2]>>

\* entries an earlier user of the module can have saved
PriorEntries == {[item |-> n, qty |-> q] : n \in Names, q \in 1..MaxStock}

\* mappings an earlier run can have saved: its own, or those of another caller
PriorStocks ==
    {<<>>, MainStock} \cup {<<e>> : e \in PriorEntries}
    \cup {<<p[1], p[2]>> : p \in {q \in PriorEntries \X PriorEntries : q[1].item # q[2].item}}

\* inventory.json before main() runs: absent, cut short by a failed write, or saved
PriorFiles == {NoFile, FileOf(<<>>)} \cup {FileOf(Dump(m)) : m \in PriorStocks}

InitMain ==
    /\ STOCK_DATA = <<>>
    /\ \E f \in PriorFiles : files = [p \in Paths |-> IF p = INVENTORY_FILE THEN f ELSE NoFile]
    /\ logs = <<>>
    /\ call = NoCall
    /\ before = <<>>
    /\ level = "NONE"
    /\ raised = "none"
    /\ ret = RetNone
    /\ printed = <<>>
    /\ pc = "L125"

\* main() goes on to the next line unless the call raised
Goto(next) == pc' = IF raised' = "none" THEN next ELSE "crashed"

main_125 == pc = "L125" /\ add_item(PyStr("apple"), PyInt(10), NoLogs) /\ Goto("L126")

main_126 == pc = "L126" /\ add_item(PyStr("banana"), PyInt(-2), NoLogs) /\ Goto("L127")

main_127 == pc = "L127" /\ add_item(PyInt(123), PyStr("ten"), NoLogs) /\ Goto("L128")

main_128 == pc = "L128" /\ remove_item(PyStr("apple"), PyInt(3)) /\ Goto("L129")

main_129 == pc = "L129" /\ remove_item(PyStr("orange"), PyInt(1)) /\ Goto("L131")

main_131 ==
    /\ pc = "L131"
    /\ get_qty("apple")
    /\ printed' = <<Line("Apple stock:", "", ret'.i, <<>>)>>
    /\ Goto("L132")

main_132 ==
    /\ pc = "L132"
    /\ check_low_items(DefaultThreshold)
    /\ printed' = <<Line("Low items:", "", 0, ret'.l)>>
    /\ Goto("L133")

main_133 == pc = "L133" /\ (\E mode \in SaveModes : save_data(INVENTORY_FILE, mode)) /\ Goto("L134")

main_134 == pc = "L134" /\ (\E mode \in LoadModes : load_data(INVENTORY_FILE, mode)) /\ Goto("L135")

main_135 == pc = "L135" /\ print_data /\ Goto("done")

NextMain ==
    \/ main_125
    \/ main_126
    \/ main_127
    \/ main_128
    \/ main_129
    \/ main_131
    \/ main_132
    \/ main_133
    \/ main_134
    \/ main_135

MainSpec == InitMain /\ [][NextMain]_vars

-----------------------------------------------------------------------------
(* Properties.  call, before, level, raised and ret describe the last call *)
(* made, so a property of a call is a predicate on the state it leaves.    *)

\* two dicts equal as Python compares them: the same keys with the same values
SameMapping(a, b) == Keys(a) = Keys(b) /\ \A k \in Keys(a) : Get(a, k, 0) = Get(b, k, 0)

Elements(l) == {l[i] : i \in 1..Len(l)}

NoRepeat(l) == \A i, j \in 1..Len(l) : l[i] = l[j] => i = j

\* thresholds below, among and above the quantities the model stores
CheckedThresholds == ((-MaxDebt - 1)..(MaxStock + 1)) \cup {DefaultThreshold}

\* the last call had a text name and an integer quantity
TextAndInteger == call.item.type = "str" /\ call.qty.type = "int"

AddedValid == call.op = "add_item" /\ TextAndInteger

RemovedValid == call.op = "remove_item" /\ TextAndInteger

\* C1: no entry of the stock mapping has a quantity less than or equal to 0.
C1_NoNonPositiveEntry == \A i \in 1..Len(STOCK_DATA) : STOCK_DATA[i].qty > 0

\* C2: add_item(name, qty) with a text name and an integer qty > 0 makes
\* get_qty(name) exactly qty larger than before (an absent name counting as 0)
\* and leaves every other name as it was.
C2_AddIncreasesByQty ==
    (AddedValid /\ call.qty.i > 0) =>
        /\ QtyOf(STOCK_DATA, call.item.s) = QtyOf(before, call.item.s) + call.qty.i
        /\ \A n \in (Keys(before) \cup Keys(STOCK_DATA) \cup Names) \ {call.item.s} :
              /\ Has(STOCK_DATA, n) = Has(before, n)
              /\ QtyOf(STOCK_DATA, n) = QtyOf(before, n)

\* C2 happens: a positive quantity is added to an entry that exists, beside another entry
C2_Witness ==
    /\ AddedValid /\ call.qty.i > 0
    /\ Has(before, call.item.s)
    /\ Len(before) = 2

\* C3: remove_item(name, qty) on a name present with quantity v leaves the
\* entry at v - qty when v - qty > 0 and deletes it when v - qty <= 0; after a
\* deletion get_qty(name) is 0 and name is in no result of check_low_items.
C3_RemoveDecrementsOrDeletes ==
    (RemovedValid /\ Has(before, call.item.s)) =>
        LET name == call.item.s
            left == Get(before, name, 0) - call.qty.i
        IN  IF left > 0
            THEN Has(STOCK_DATA, name) /\ Get(STOCK_DATA, name, 0) = left
            ELSE /\ ~Has(STOCK_DATA, name)
                 /\ QtyOf(STOCK_DATA, name) = 0
                 /\ \A t \in CheckedThresholds : name \notin Elements(LowItems(STOCK_DATA, t, 1))

\* C3 happens: an entry is removed down to exactly 0 and deleted, another entry stays
C3_Witness ==
    /\ RemovedValid
    /\ Has(before, call.item.s)
    /\ Get(before, call.item.s, 0) - call.qty.i = 0
    /\ ~Has(STOCK_DATA, call.item.s)
    /\ Len(STOCK_DATA) = 1

C5_LowItemsExact ==
    /\ \A t \in CheckedThresholds :
          /\ Elements(LowItems(STOCK_DATA, t, 1))
                = {n \in Keys(STOCK_DATA) : Get(STOCK_DATA, n, 0) < t}
          /\ NoRepeat(LowItems(STOCK_DATA, t, 1))
    /\ call.op = "check_low_items" =>
          /\ ret.type = "list"
          /\ Elements(ret.l) = {n \in Keys(before) : Get(before, n, 0) < call.threshold}
          /\ NoRepeat(ret.l)

\* C5 happens: of two entries check_low_items returned one; the other is at the threshold
C5_Witness ==
    /\ call.op = "check_low_items"
    /\ Len(STOCK_DATA) = 2
    /\ Len(ret.l) = 1
    /\ \E i \in 1..2 : STOCK_DATA[i].qty = call.threshold

\* C6: add_item or remove_item called with a name that is not text or a
\* quantity that is not an integer reports an error and changes nothing: the
\* mapping is as before and nothing is appended to a supplied log list.
C6_InvalidInputNoChange ==
    (call.op \in {"add_item", "remove_item"} /\ ~TextAndInteger) =>
        /\ STOCK_DATA = before
        /\ level = "ERROR"
        /\ raised = "none"
        /\ logs = call.logs.list

\* C6 happens: add_item got an integer quantity but a name that is not text,
\* and a log list, while the mapping held entries
C6_Witness ==
    /\ call.op = "add_item"
    /\ call.item.type # "str" /\ call.qty.type = "int"
    /\ call.logs.given
    /\ Len(before) > 0

\* C7: remove_item(name, qty) with a text name absent from the mapping leaves
\* the mapping as it was, reports a warning, not an error, and raises nothing.
C7_RemoveAbsentNoChange ==
    (RemovedValid /\ ~Has(before, call.item.s)) =>
        /\ STOCK_DATA = before
        /\ level = "WARNING"
        /\ raised = "none"

\* C7 happens: a negative quantity of an absent name is removed from a mapping with an entry
C7_Witness ==
    /\ RemovedValid
    /\ ~Has(before, call.item.s)
    /\ call.qty.i < 0
    /\ Len(before) > 0

\* C8: load_data(path) with no file at path leaves the mapping empty, whatever
\* it held, reports a warning and raises nothing.
C8_LoadMissingFileEmpties ==
    (call.op = "load_data" /\ ~files[call.path].exists) =>
        /\ STOCK_DATA = <<>>
        /\ level = "WARNING"
        /\ raised = "none"

\* C8 happens: load_data found no file while the mapping held entries
C8_Witness ==
    /\ call.op = "load_data"
    /\ ~files[call.path].exists
    /\ Len(before) > 0

\* C9: after add_item("apple", 10), add_item("banana", -2) and
\* remove_item("apple", 3) from the empty mapping, get_qty("apple") is 7 and
\* "banana" is not an entry of the mapping.
C9_MainScenario ==
    pc = "L129" => QtyOf(STOCK_DATA, "apple") = 7 /\ ~Has(STOCK_DATA, "banana")

\* C10: get_qty, check_low_items, print_data and save_data never change the
\* mapping, save_data not even when it fails.
C10_ObserversKeepMapping ==
    call.op \in {"get_qty", "check_low_items", "print_data", "save_data"} =>
        STOCK_DATA = before

\* C10 happens: save_data failed after truncating the file while the mapping held entries
C10_Witness ==
    /\ call.op = "save_data" /\ level = "ERROR"
    /\ files[call.path].exists
    /\ files[call.path] # FileOf(Dump(before))
    /\ Len(before) > 0

====
